---- MODULE Spec2Model ----
\* Model of src/src/learn.py: the HyperoptSearchCV adapter (fit / predict /
\* __objective), plot_feature_importance and the main() orchestration loop.
\*
\* Abstractions:
\*  - a feature matrix or target vector is represented by its number of rows;
\*  - a hyperparameter configuration (the kwargs dict) is a number in space;
\*  - an instance attribute that may be missing is <<>> when missing and
\*    <<v>> when it holds v;
\*  - the external collaborators (hyperopt's suggestions, cross_val_score,
\*    the wrapped estimator's fit, RandomizedSearchCV, savefig, dump) are
\*    inputs: their results are chosen from small sets;
\*  - an exception that leaves a call is the call's outcome (last.out).
EXTENDS Integers, Sequences, FiniteSets, TLC

\* ---------------------------------------------------------------- bounds
MaxRows == 2
MaxIter == 2
MaxCalls == 3
MaxFamilies == 2
MaxRenders == 2

Rows == 1..MaxRows

\* self.space (line 45): the search space handed to the constructor, as the
\* set of configurations hyperopt can draw from it. Two configurations are
\* enough to tell a first trial from a later one and a better from a worse.
space == {1, 2}

\* The mean scores cross_val_score can give a configuration (lines 109-117):
\* a lower and a higher one, so that the sign of the loss and the order of two
\* configurations show.
Scores == {0, 1}

Absent == <<>>
Has(v) == <<v>>

VARIABLES
    \* --- HyperoptSearchCV instance
    n_iter,           \* self.n_iter
    estimator,        \* the object self.estimator refers to: [params, fitted]
    X_, Y_,           \* self.X_, self.Y_ (bound by fit, deleted after the refit)
    y_,               \* self.y_ : read by __objective, assigned nowhere in the class
    best_params_,     \* self.best_params_
    best_estimator_,  \* self.best_estimator_ : a reference to an estimator object
    \* --- environment of the adapter
    cvs,              \* cross_val_score(...).mean() per configuration, <<>> = it raises
    attributes_ignored, \* whether the installed check_is_fitted ignores its attribute list
    \* --- observation of the calls made on the adapter
    lastfit,          \* how the most recent fit call ended: "none", "self", "raised"
    last,             \* the most recent call: its arguments and its result
    prev,             \* the call before it
    \* --- main()
    clf_names,        \* the list of family names main() iterates over
    mpc,              \* position of main(): "load", "search", "plot", "dump", "done", "error"
    idx,              \* 1-based position in clf_names
    events,           \* the steps of main() that completed, in order
    failure,          \* <<>> or <<i, step>>: the step of family i that raised
    best_estimator,   \* the local best_estimator of main() (line 254)
    \* --- plot_feature_importance, plot_variance
    figures,          \* number of pyplot figures created and never cleared
    pictures,         \* image files written
    rlast             \* the most recent direct call of a plot function

adapterVars == <<n_iter, estimator, X_, Y_, y_, best_params_, best_estimator_,
                 cvs, lastfit, attributes_ignored, last, prev>>
mainVars == <<clf_names, mpc, idx, events, failure, best_estimator>>
plotVars == <<figures, pictures, rlast>>
vars == <<n_iter, estimator, X_, Y_, y_, best_params_, best_estimator_,
          cvs, lastfit, attributes_ignored, last, prev, clf_names, mpc, idx, events, failure,
          best_estimator, figures, pictures, rlast>>

\* ------------------------------------------------------------ the adapter

\* The reference held in self.estimator (and, after line 79, in
\* self.best_estimator_): there is a single estimator object on the heap,
\* because the refit of lines 79-81 never clones.
EstimatorRef == "self.estimator"

\* The estimator template handed to __init__ (line 44): constructor parameters,
\* never fitted.
NewEstimator == [params |-> Absent, fitted |-> Absent]

NoCall == [n |-> 0, op |-> "none", argX |-> 0, argY |-> 0, out |-> "none",
           trials |-> <<>>, refit |-> FALSE, ret |-> <<>>]

\* What is kept of the call before the most recent one.
Brief(call) == [op |-> call.op, argX |-> call.argX, out |-> call.out, ret |-> call.ret]

\* sklearn.utils.validation.check_X_y as used on line 66: it raises ValueError
\* ("inconsistent numbers of samples") unless X and Y have the same row count.
\* (faulty variant: no shape check)
check_X_y_unchecked(X, Y) == TRUE
check_X_y(X, Y) == X = Y

\* sklearn.utils.validation.check_is_fitted(self, [a1, a2]) as used on line
\* 102. The imports of lines 11-14 (sklearn.model_selection, and
\* sklearn.externals.joblib, which 0.23 removed) admit scikit-learn 0.18 to
\* 0.22, and the function differs among them:
\*   - up to 0.21 (all_or_any = all) it passes only when every listed
\*     attribute exists;
\*   - 0.22 ignores the list and passes when the instance has any attribute
\*     whose name ends with an underscore.
\* named    : the attributes listed on line 102
\* trailing : every attribute of the instance whose name ends with "_"
check_is_fitted(named, trailing) ==
    IF attributes_ignored
    THEN \E i \in 1..Len(trailing) : trailing[i] # Absent
    ELSE \A i \in 1..Len(named) : named[i] # Absent

\* cross_val_score(model, X, y, ...).mean() of lines 109-117 for a clone
\* configured with kwargs: inconsistent lengths raise ValueError, a failing
\* fold raises, otherwise the mean score.
cross_val_score(kwargs, X, y) ==
    IF X # y THEN [err |-> "ValueError", mean |-> 0]
    ELSE IF cvs[kwargs] = Absent THEN [err |-> "ScoringFailure", mean |-> 0]
    ELSE [err |-> "", mean |-> cvs[kwargs][1]]

\* HyperoptSearchCV.__objective (lines 108-117). The arguments of
\* cross_val_score are evaluated first: clone(self.estimator).set_params(**kwargs)
\* (a fresh object, self.estimator untouched), self.X_, then self.y_, which
\* raises AttributeError when the instance has no attribute y_.
\* xattr, yattr: the attributes self.X_ and self.y_ at the time of the call.
objective(xattr, yattr, kwargs) ==
    IF yattr = Absent
    THEN [cfg |-> kwargs, err |-> "AttributeError", loss |-> 0, scored |-> FALSE]
    ELSE LET r == cross_val_score(kwargs, xattr[1], yattr[1]) IN
         IF r.err # ""
         THEN [cfg |-> kwargs, err |-> r.err, loss |-> 0, scored |-> TRUE]
         ELSE [cfg |-> kwargs, err |-> "", loss |-> 0 - r.mean, scored |-> TRUE]

\* The evaluation loop of hyperopt.fmin (line 71): the objective is called on
\* the suggested configurations one after another; an exception of the
\* objective is not caught (catch_eval_exceptions defaults to False), so the
\* loop ends at the first trial that raises.
\* (faulty variant: the loop goes on after a trial that raised)
RECURSIVE run_trials_continue(_, _, _, _)
run_trials_continue(xattr, yattr, sugg, k) ==
    IF k = 0 THEN <<>>
    ELSE Append(run_trials_continue(xattr, yattr, sugg, k - 1),
                objective(xattr, yattr,
                          sugg[IF k <= Len(sugg) THEN k ELSE Len(sugg)]))

RECURSIVE run_trials(_, _, _, _)
run_trials(xattr, yattr, sugg, k) ==
    IF k = 0 THEN <<>>
    ELSE LET done == run_trials(xattr, yattr, sugg, k - 1) IN
         IF done # <<>> /\ done[Len(done)].err # ""
         THEN done
         ELSE Append(done, objective(xattr, yattr, sugg[k]))

\* The error that ended the trials, "" when every trial returned a loss.
trials_error(trials) ==
    IF \E i \in 1..Len(trials) : trials[i].err # ""
    THEN trials[CHOOSE i \in 1..Len(trials) : trials[i].err # ""].err
    ELSE ""

\* What fmin returns (line 71): the configuration of the trial with the
\* smallest loss, the earliest such trial on ties.
argmin(trials) ==
    LET ok == {i \in 1..Len(trials) : trials[i].err = ""}
        best == CHOOSE i \in ok :
                    /\ \A j \in ok : trials[i].loss <= trials[j].loss
                    /\ \A j \in ok : (trials[j].loss = trials[i].loss) => i <= j
    IN trials[best].cfg

\* HyperoptSearchCV.fit (lines 52-88), the whole call.
\*   X, Y     : row counts of the arguments
\*   sugg     : the configurations tpe.suggest proposes, trial by trial
\*   refit_ok : whether the estimator's fit on the whole data (line 81) returns
Fit(X, Y, sugg, refit_ok) ==
    /\ last.n < MaxCalls
    /\ prev' = Brief(last)
    /\ UNCHANGED <<n_iter, y_, cvs>>
    /\ IF ~check_X_y(X, Y)
       THEN \* line 66 raises: nothing was assigned
            /\ last' = [n |-> last.n + 1, op |-> "fit", argX |-> X, argY |-> Y,
                        out |-> "ValueError", trials |-> <<>>, refit |-> FALSE,
                        ret |-> <<>>]
            /\ lastfit' = "raised"
            /\ UNCHANGED <<estimator, X_, Y_, best_params_, best_estimator_,
                           attributes_ignored>>
       ELSE LET trials == run_trials(Has(X), y_, sugg, n_iter)
                err == trials_error(trials)
            IN
            IF err # ""
            THEN \* lines 67-68 bound the data, fmin (line 71) raised
                 /\ X_' = Has(X)
                 /\ Y_' = Has(Y)
                 /\ last' = [n |-> last.n + 1, op |-> "fit", argX |-> X, argY |-> Y,
                             out |-> err, trials |-> trials, refit |-> FALSE,
                             ret |-> <<>>]
                 /\ lastfit' = "raised"
                 /\ UNCHANGED <<estimator, best_params_, best_estimator_,
                                attributes_ignored>>
            ELSE IF ~refit_ok
            THEN \* line 71 assigned best_params_, line 79 reconfigured
                 \* self.estimator, its fit (line 81) raised: best_estimator_
                 \* is not assigned and lines 83-84 do not run
                 /\ X_' = Has(X)
                 /\ Y_' = Has(Y)
                 /\ best_params_' = Has(argmin(trials))
                 /\ estimator' = [estimator EXCEPT !.params = Has(argmin(trials))]
                 /\ last' = [n |-> last.n + 1, op |-> "fit", argX |-> X, argY |-> Y,
                             out |-> "RefitError", trials |-> trials, refit |-> TRUE,
                             ret |-> <<>>]
                 /\ lastfit' = "raised"
                 /\ UNCHANGED <<best_estimator_, attributes_ignored>>
            ELSE \* lines 71-88 all ran
                 /\ best_params_' = Has(argmin(trials))
                 /\ estimator' = [params |-> Has(argmin(trials)),
                                  fitted |-> Has(<<X, Y>>)]
                 /\ best_estimator_' = Has(EstimatorRef)
                 /\ X_' = Absent
                 /\ Y_' = Absent
                 /\ last' = [n |-> last.n + 1, op |-> "fit", argX |-> X, argY |-> Y,
                             out |-> "self", trials |-> trials, refit |-> TRUE,
                             ret |-> <<>>]
                 /\ lastfit' = "self"
                 /\ UNCHANGED attributes_ignored

\* The outcomes the refit of lines 79-81 can have in a call fit(X, Y) with the
\* suggestions sugg: it returns or raises when the call gets that far, and
\* plays no part otherwise.
refit_outcomes(X, Y, sugg) ==
    IF check_X_y(X, Y) /\ trials_error(run_trials(Has(X), y_, sugg, n_iter)) = ""
    THEN BOOLEAN
    ELSE {TRUE}

\* predict of the wrapped estimator object (line 106): its result is
\* determined by the object's parameters, the data it was fitted on and the
\* input; one prediction per input row.
estimator_predict(obj, X) == [rows |-> X, params |-> obj.params, fitted |-> obj.fitted]

\* HyperoptSearchCV.predict (lines 90-106), the whole call: check_is_fitted,
\* then (check_array, which accepts every input modelled here) the delegation.
\* (faulty variant first: it drops best_estimator_ after predicting)
PredictForget(X) ==
    /\ last.n < MaxCalls
    /\ prev' = Brief(last)
    /\ IF ~check_is_fitted(<<best_params_, best_estimator_>>,
                          <<X_, Y_, y_, best_params_, best_estimator_>>)
       THEN /\ last' = [n |-> last.n + 1, op |-> "predict", argX |-> X, argY |-> 0,
                        out |-> "NotFittedError", trials |-> <<>>, refit |-> FALSE,
                        ret |-> <<>>]
            /\ UNCHANGED best_estimator_
       ELSE IF best_estimator_ = Absent
       THEN /\ last' = [n |-> last.n + 1, op |-> "predict", argX |-> X, argY |-> 0,
                        out |-> "AttributeError", trials |-> <<>>, refit |-> FALSE,
                        ret |-> <<>>]
            /\ UNCHANGED best_estimator_
       ELSE /\ last' = [n |-> last.n + 1, op |-> "predict", argX |-> X, argY |-> 0,
                        out |-> "ok", trials |-> <<>>, refit |-> FALSE,
                        ret |-> Has(estimator_predict(estimator, X))]
            /\ best_estimator_' = Absent
    /\ UNCHANGED <<n_iter, estimator, X_, Y_, y_, best_params_, cvs, lastfit,
                   attributes_ignored>>

Predict(X) ==
    /\ last.n < MaxCalls
    /\ prev' = Brief(last)
    /\ IF ~check_is_fitted(<<best_params_, best_estimator_>>,
                          <<X_, Y_, y_, best_params_, best_estimator_>>)
       THEN \* line 102 raises NotFittedError
            last' = [n |-> last.n + 1, op |-> "predict", argX |-> X, argY |-> 0,
                     out |-> "NotFittedError", trials |-> <<>>, refit |-> FALSE,
                     ret |-> <<>>]
       ELSE IF best_estimator_ = Absent
       THEN \* line 106: self.best_estimator_ does not exist
            last' = [n |-> last.n + 1, op |-> "predict", argX |-> X, argY |-> 0,
                     out |-> "AttributeError", trials |-> <<>>, refit |-> FALSE,
                     ret |-> <<>>]
       ELSE \* line 106: delegate to the object best_estimator_ refers to
            last' = [n |-> last.n + 1, op |-> "predict", argX |-> X, argY |-> 0,
                     out |-> "ok", trials |-> <<>>, refit |-> FALSE,
                     ret |-> Has(estimator_predict(estimator, X))]
    /\ UNCHANGED <<n_iter, estimator, X_, Y_, y_, best_params_, best_estimator_,
                   cvs, lastfit, attributes_ignored>>

\* HyperoptSearchCV.__init__ (lines 40-50): the constructor stores its
\* arguments and creates none of X_, Y_, y_, best_params_, best_estimator_.
InitAdapter ==
    /\ n_iter \in 1..MaxIter
    /\ estimator = NewEstimator
    /\ X_ = Absent
    /\ Y_ = Absent
    /\ y_ = Absent
    /\ best_params_ = Absent
    /\ best_estimator_ = Absent
    /\ cvs \in [space -> {Absent} \cup {Has(s) : s \in Scores}]
    /\ lastfit = "none"
    /\ attributes_ignored \in BOOLEAN
    /\ last = NoCall
    /\ prev = Brief(NoCall)

\* The same instance when the caller may have attached an attribute y_ to it
\* (adapter.y_ = Y) before calling fit: the only way line 112 can resolve.
\* No statement of learn.py assigns y_, so an instance with y_ present is one
\* a caller prepared, not one the class produces. InitAdapter is the case
\* y_ = Absent of this predicate: what holds from here holds of the class as
\* written too.
InitAdapterY ==
    /\ n_iter \in 1..MaxIter
    /\ estimator = NewEstimator
    /\ X_ = Absent
    /\ Y_ = Absent
    /\ y_ \in {Absent} \cup {Has(r) : r \in Rows}
    /\ best_params_ = Absent
    /\ best_estimator_ = Absent
    /\ cvs \in [space -> {Absent} \cup {Has(s) : s \in Scores}]
    /\ lastfit = "none"
    /\ attributes_ignored \in BOOLEAN
    /\ last = NoCall
    /\ prev = Brief(NoCall)

\* ------------------------------------------------ plot_feature_importance

\* The keys of the estimator dictionary of main() (lines 205-220).
Families == {"svm", "rf", "xgb"}

\* The path main() renders the importances to (line 258).
FeatureImportancesPng == "./documents/pictures/feature_importances.png"

\* Whether a fitted model of the family has the attribute feature_importances_
\* read on line 171: the tree ensembles have it, the kernel machine (SVR) does not.
has_feature_importances(clf) == clf \in {"rf", "xgb"}

\* plot_feature_importance(clf, path) (lines 155-187), the whole call, as the
\* values of figures and pictures after it and its outcome.
\*   line 170 creates a figure; line 171 raises AttributeError when clf has no
\*   feature_importances_; line 184 writes the file unless savefig raises
\*   (io_ok = FALSE); line 187 names plt.clf without calling it, so the figure
\*   is never cleared.
\* (faulty variant first: a silent no-op on a model without importances)
plot_feature_importance_silent(clf, path, io_ok) ==
    IF ~has_feature_importances(clf)
    THEN [out |-> "ok", figures |-> figures + 1, pictures |-> pictures]
    ELSE IF ~io_ok
    THEN [out |-> "IOError", figures |-> figures + 1, pictures |-> pictures]
    ELSE [out |-> "ok", figures |-> figures + 1, pictures |-> pictures \cup {path}]

plot_feature_importance(clf, path, io_ok) ==
    IF ~has_feature_importances(clf)
    THEN [out |-> "AttributeError", figures |-> figures + 1, pictures |-> pictures]
    ELSE IF ~io_ok
    THEN [out |-> "IOError", figures |-> figures + 1, pictures |-> pictures]
    ELSE [out |-> "ok", figures |-> figures + 1, pictures |-> pictures \cup {path}]

\* The path of the variance chart (line 196).
VariancesPng == "./documents/pictures/variances.png"

\* The kinds of object a caller can hand to plot_variance as X: the DataFrame
\* the docstring names (line 124), the array main() builds on line 192 (the
\* argument of the call on line 196), and a plain list of rows.
DataKinds == {"DataFrame", "ndarray", "list"}

\* Whether X.var().values of line 136 evaluates: a DataFrame's var() gives a
\* Series, which has .values; an array's var() gives a scalar, which has
\* none; a list has no var.
has_var_values(X) == X = "DataFrame"

\* plot_variance(X, path) (lines 120-152), the whole call, as the values of
\* figures and pictures after it and its outcome: line 135 creates a figure,
\* line 136 raises AttributeError when X.var().values does not evaluate, line
\* 149 writes the file unless savefig raises (io_ok = FALSE), line 152 names
\* plt.clf without calling it, so the figure is never cleared.
plot_variance(X, path, io_ok) ==
    IF ~has_var_values(X)
    THEN [out |-> "AttributeError", figures |-> figures + 1, pictures |-> pictures]
    ELSE IF ~io_ok
    THEN [out |-> "IOError", figures |-> figures + 1, pictures |-> pictures]
    ELSE [out |-> "ok", figures |-> figures + 1, pictures |-> pictures \cup {path}]

\* A direct call of plot_variance on a data object of kind X.
CallPlotVariance ==
    \E X \in DataKinds, io_ok \in BOOLEAN :
        LET r == plot_variance(X, VariancesPng, io_ok) IN
        /\ rlast.n < MaxRenders
        /\ rlast' = [n |-> rlast.n + 1, clf |-> X, out |-> r.out]
        /\ figures' = r.figures
        /\ pictures' = r.pictures
        /\ UNCHANGED <<adapterVars, mainVars>>

\* A direct call of plot_feature_importance on a fitted model of family clf.
CallPlotFeatureImportance ==
    \E clf \in Families, io_ok \in BOOLEAN :
        LET r == plot_feature_importance(clf, FeatureImportancesPng, io_ok) IN
        /\ rlast.n < MaxRenders
        /\ rlast' = [n |-> rlast.n + 1, clf |-> clf, out |-> r.out]
        /\ figures' = r.figures
        /\ pictures' = r.pictures
        /\ UNCHANGED <<adapterVars, mainVars>>

\* ------------------------------------------------------------------ main()

\* The test of line 257. (faulty variant first: it tests for another family)
is_rf_wrong(clf_name) == clf_name = "xgb"
is_rf(clf_name) == clf_name = "rf"

\* Lines 192-193: the two read_pickle calls; an exception ends main().
MainLoad(ok) ==
    /\ mpc = "load"
    /\ IF ok
       THEN /\ mpc' = IF clf_names = <<>> THEN "done" ELSE "search"
            /\ UNCHANGED failure
       ELSE /\ mpc' = "error"
            /\ failure' = <<0, "load">>
    /\ UNCHANGED <<clf_names, idx, events, best_estimator>>
    /\ UNCHANGED <<adapterVars, plotVars>>

\* Lines 241-255: RandomizedSearchCV(...).fit(X_train, Y_train) for the family
\* at idx, then best_estimator / best_params are read from it. An exception of
\* the search is not caught and ends main().
\* (faulty variant first: a failed search is skipped and the loop goes on)
MainSearchIsolated(ok) ==
    /\ mpc = "search"
    /\ IF ok
       THEN /\ best_estimator' = Has(clf_names[idx])
            /\ events' = Append(events, [step |-> "search", i |-> idx,
                                         name |-> clf_names[idx]])
            /\ mpc' = IF is_rf(clf_names[idx]) THEN "plot" ELSE "dump"
            /\ UNCHANGED <<failure, idx>>
       ELSE /\ failure' = <<idx, "search">>
            /\ mpc' = IF idx = Len(clf_names) THEN "done" ELSE "search"
            /\ idx' = IF idx = Len(clf_names) THEN idx ELSE idx + 1
            /\ UNCHANGED <<best_estimator, events>>
    /\ UNCHANGED clf_names
    /\ UNCHANGED <<adapterVars, plotVars>>

MainSearch(ok) ==
    /\ mpc = "search"
    /\ IF ok
       THEN /\ best_estimator' = Has(clf_names[idx])
            /\ events' = Append(events, [step |-> "search", i |-> idx,
                                         name |-> clf_names[idx]])
            /\ mpc' = IF is_rf(clf_names[idx]) THEN "plot" ELSE "dump"
            /\ UNCHANGED failure
       ELSE /\ mpc' = "error"
            /\ failure' = <<idx, "search">>
            /\ UNCHANGED <<best_estimator, events>>
    /\ UNCHANGED <<clf_names, idx>>
    /\ UNCHANGED <<adapterVars, plotVars>>

\* Lines 258-260: plot_feature_importance(best_estimator, path) when the
\* family is 'rf'; its exception is not caught and ends main().
MainPlot(io_ok) ==
    /\ mpc = "plot"
    /\ LET r == plot_feature_importance(best_estimator[1], FeatureImportancesPng, io_ok) IN
       /\ figures' = r.figures
       /\ pictures' = r.pictures
       /\ IF r.out = "ok"
          THEN /\ events' = Append(events, [step |-> "plot", i |-> idx,
                                            name |-> best_estimator[1]])
               /\ mpc' = "dump"
               /\ UNCHANGED failure
          ELSE /\ mpc' = "error"
               /\ failure' = <<idx, "plot">>
               /\ UNCHANGED events
    /\ UNCHANGED <<clf_names, idx, best_estimator, rlast>>
    /\ UNCHANGED adapterVars

\* Line 263: dump(best_estimator, './resources/estimators/' + clf_name + '.pkl'),
\* then the loop moves to the next name; an exception of dump ends main().
MainDump(ok) ==
    /\ mpc = "dump"
    /\ IF ok
       THEN /\ events' = Append(events, [step |-> "dump", i |-> idx,
                                         name |-> clf_names[idx]])
            /\ mpc' = IF idx = Len(clf_names) THEN "done" ELSE "search"
            /\ idx' = IF idx = Len(clf_names) THEN idx ELSE idx + 1
            /\ UNCHANGED failure
       ELSE /\ mpc' = "error"
            /\ failure' = <<idx, "dump">>
            /\ UNCHANGED <<events, idx>>
    /\ UNCHANGED <<clf_names, best_estimator>>
    /\ UNCHANGED <<adapterVars, plotVars>>

RunLoad == \E ok \in BOOLEAN : MainLoad(ok)
RunSearch == \E ok \in BOOLEAN : MainSearch(ok)
RunPlot == \E io_ok \in BOOLEAN : MainPlot(io_ok)
RunDump == \E ok \in BOOLEAN : MainDump(ok)

\* main() before its first statement, with the list of line 203.
InitMainIdle ==
    /\ clf_names = <<"svm">>
    /\ mpc = "load"
    /\ idx = 1
    /\ events = <<>>
    /\ failure = <<>>
    /\ best_estimator = Absent
    /\ figures = 0
    /\ pictures = {}
    /\ rlast = [n |-> 0, clf |-> "none", out |-> "none"]

\* main() before its first statement, for every list of at most MaxFamilies
\* names the comment of line 202 invites ("only the ones to train").
InitMain ==
    /\ clf_names \in UNION {[1..k -> Families] : k \in 0..MaxFamilies}
    /\ mpc = "load"
    /\ idx = 1
    /\ events = <<>>
    /\ failure = <<>>
    /\ best_estimator = Absent
    /\ figures = 0
    /\ pictures = {}
    /\ rlast = [n |-> 0, clf |-> "none", out |-> "none"]

\* main() constructs no HyperoptSearchCV: the adapter's variables stay as below.
InitNoAdapter ==
    /\ n_iter = 100
    /\ estimator = NewEstimator
    /\ X_ = Absent
    /\ Y_ = Absent
    /\ y_ = Absent
    /\ best_params_ = Absent
    /\ best_estimator_ = Absent
    /\ cvs = [c \in space |-> Absent]
    /\ lastfit = "none"
    /\ attributes_ignored = FALSE
    /\ last = NoCall
    /\ prev = Brief(NoCall)

\* The sequences of configurations tpe.suggest gets to propose in a call
\* fit(X, Y) (line 71): fmin asks for a configuration only for a trial it
\* evaluates, so none when line 66 raises, and none after the first trial
\* that raises; n_iter of them when every trial returns a loss.
suggestions(X, Y) ==
    IF ~check_X_y(X, Y) THEN {<<>>}
    ELSE LET raising == {c \in space : objective(Has(X), y_, c).err # ""} IN
         {s \in UNION {[1..k -> space] : k \in 1..n_iter} :
            /\ \A i \in 1..(Len(s) - 1) : s[i] \notin raising
            /\ \/ Len(s) = n_iter
               \/ s[Len(s)] \in raising}

CallFit ==
    \E X \in Rows, Y \in Rows :
      \E sugg \in suggestions(X, Y) :
        \E refit_ok \in refit_outcomes(X, Y, sugg) :
            Fit(X, Y, sugg, refit_ok) /\ UNCHANGED <<mainVars, plotVars>>

CallPredict ==
    \E X \in Rows : Predict(X) /\ UNCHANGED <<mainVars, plotVars>>

Init == InitAdapter /\ InitMainIdle
InitY == InitAdapterY /\ InitMainIdle
InitM == InitNoAdapter /\ InitMain

Next == CallFit \/ CallPredict
NextM ==
    \/ RunLoad \/ RunSearch \/ RunPlot \/ RunDump
    \/ CallPlotFeatureImportance \/ CallPlotVariance

\* The adapter as constructed.
Spec == Init /\ [][Next]_vars
\* The adapter on an instance that may carry a caller-supplied attribute y_.
SpecY == InitY /\ [][Next]_vars
\* main(), plot_feature_importance and plot_variance.
SpecM == InitM /\ [][NextM]_vars

\* ------------------------------------------------------------ properties

\* A call of fit / predict was just made: last' describes it.
IsCall == last'.n # last.n

\* C1: for every dataset whose row counts agree and every n_iter >= 1, fit
\* (when scoring no configuration fails and the estimator's own fit does not
\* raise) runs the search and the refit, returns self and leaves best_params_ and best_estimator_ set.
C1_FitEndsFitted ==
    (/\ last.op = "fit"
     /\ last.argX = last.argY
     /\ \A c \in space : cvs[c] # Absent
     /\ last.out # "RefitError")
    => (/\ last.out = "self"
        /\ last.refit
        /\ Len(last.trials) = n_iter
        /\ lastfit = "self"
        /\ best_params_ # Absent
        /\ best_estimator_ # Absent)

\* C2: predict on an adapter that was never fit, or whose most recent fit
\* call raised (at the shape check, in the search or in the refit), raises
\* NotFittedError and returns nothing from a model.
C2_PredictRejectedUnlessFitted ==
    (last.op = "predict" /\ lastfit # "self")
    => (last.out = "NotFittedError" /\ last.ret = <<>>)

\* C3: a fit call whose arguments differ in row count raises at the shape
\* check: no trial is evaluated, no refit happens, and X_, Y_, best_params_,
\* best_estimator_ and the estimator are as before the call.
C3_ShapeMismatchRejectedFirst ==
    [][(IsCall /\ last'.op = "fit" /\ last'.argX # last'.argY)
       => (/\ last'.out = "ValueError"
           /\ last'.trials = <<>>
           /\ ~last'.refit
           /\ UNCHANGED <<X_, Y_, best_params_, best_estimator_, estimator>>)]_vars

\* C3 witness: a mismatched fit call was rejected on a fresh adapter.
C3_Witness ==
    /\ last.op = "fit"
    /\ last.argX # last.argY
    /\ last.out = "ValueError"
    /\ X_ = Absent
    /\ Y_ = Absent

\* C4: every evaluation of the objective during fit returns the negated mean
\* cross-validated score of the configuration (whenever scoring it does not
\* fail), and leaves the estimator template as constructed.
C4_ObjectiveIsNegatedMean ==
    (last.op = "fit")
    => (/\ \A i \in 1..Len(last.trials) :
              cvs[last.trials[i].cfg] # Absent
              => (/\ last.trials[i].err = ""
                  /\ last.trials[i].loss = 0 - cvs[last.trials[i].cfg][1])
        /\ (~last.refit => estimator = NewEstimator))

\* C5: predict on a fitted adapter succeeds, leaves the adapter fitted with
\* best_params_, best_estimator_ and the model unchanged, and returns what the
\* previous predict call returned when that call had the same input.
C5_PredictRepeatable ==
    [][(IsCall /\ last'.op = "predict" /\ lastfit = "self")
       => (/\ last'.out = "ok"
           /\ lastfit' = "self"
           /\ UNCHANGED <<best_params_, best_estimator_, estimator>>
           /\ ((last.op = "predict" /\ last.argX = last'.argX)
               => last'.ret = last.ret))]_vars

\* C5 witness: two consecutive predict calls with the same input on a fitted
\* adapter both returned, with the same result.
C5_Witness ==
    /\ lastfit = "self"
    /\ last.op = "predict" /\ last.out = "ok"
    /\ prev.op = "predict" /\ prev.out = "ok"
    /\ last.argX = prev.argX
    /\ last.ret = prev.ret

\* C9: after a fit call that returned, the estimator template is as it was
\* constructed (original parameters, never fitted) and best_estimator_ refers
\* to another object than the template.
C9_RefitUsesFreshCopy ==
    (last.op = "fit" /\ last.out = "self")
    => (/\ estimator = NewEstimator
        /\ best_estimator_ # Has(EstimatorRef))

\* C10: when a trial of fit raises, that trial is the last one evaluated (no
\* later trial, no retry), fit raises the same error, the refit does not run
\* and best_params_, best_estimator_ and the estimator are as before the call.
C10_TrialErrorAbortsFit ==
    [][(/\ IsCall
        /\ last'.op = "fit"
        /\ \E i \in 1..Len(last'.trials) : last'.trials[i].err # "")
       => (/\ \A i \in 1..Len(last'.trials) :
                 last'.trials[i].err # "" => i = Len(last'.trials)
           /\ last'.out = last'.trials[Len(last'.trials)].err
           /\ ~last'.refit
           /\ lastfit' = "raised"
           /\ UNCHANGED <<best_params_, best_estimator_, estimator>>)]_vars

\* C10 witness: cross-validation scoring raised in the first trial of a budget
\* of more trials; fit ended with that error and the later trials never ran.
C10_Witness ==
    /\ last.op = "fit"
    /\ last.out = "ScoringFailure"
    /\ last.trials[Len(last.trials)].scored
    /\ Len(last.trials) < n_iter
    /\ ~last.refit

\* The steps main() completes for the first k names when nothing raises:
\* search, then the importance plot for 'rf' only, then dump under the name.
RECURSIVE ExpectedEvents(_, _)
ExpectedEvents(names, k) ==
    IF k = 0 THEN <<>>
    ELSE ExpectedEvents(names, k - 1)
         \o <<[step |-> "search", i |-> k, name |-> names[k]]>>
         \o (IF names[k] = "rf"
             THEN <<[step |-> "plot", i |-> k, name |-> names[k]]>>
             ELSE <<>>)
         \o <<[step |-> "dump", i |-> k, name |-> names[k]]>>

IsPrefix(s, t) == Len(s) <= Len(t) /\ SubSeq(t, 1, Len(s)) = s

\* C6: once a step of main() has raised, main() has ended: no step of a later
\* family has completed, the failing family was not persisted, and nothing of
\* main() changes afterwards.
C6_FailureAbortsRun ==
    [][(failure # <<>>)
       => (/\ mpc = "error"
           /\ \A k \in 1..Len(events) :
                 /\ events[k].i <= failure[1]
                 /\ ~(events[k].i = failure[1] /\ events[k].step = "dump")
           /\ UNCHANGED mainVars)]_vars

\* C6 witness: the first of two families failed after its search (in the plot
\* or in dump); the second family was never searched.
C6_Witness ==
    /\ failure # <<>>
    /\ failure[1] = 1
    /\ failure[2] # "search"
    /\ Len(clf_names) = 2
    /\ mpc = "error"
    /\ Len(events) >= 1

\* C7: the completed steps of main() are always an initial part of: for each
\* name in list order, search, plot (exactly for 'rf'), dump under that name;
\* and a run that ends without an error has completed all of them.
C7_SequentialOrder ==
    /\ IsPrefix(events, ExpectedEvents(clf_names, Len(clf_names)))
    /\ (mpc = "done" /\ failure = <<>>)
       => events = ExpectedEvents(clf_names, Len(clf_names))

\* C7 witness: a run over two different families, one of them 'rf', completed.
C7_Witness ==
    /\ mpc = "done"
    /\ failure = <<>>
    /\ Len(clf_names) = 2
    /\ clf_names[1] # clf_names[2]
    /\ \E k \in 1..2 : clf_names[k] = "rf"
    /\ Len(events) = 5

\* C8: plot_feature_importance on a fitted kernel-machine model (no
\* feature_importances_) raises and writes no image file.
C8_NoImportanceRaises ==
    [][(rlast'.n # rlast.n /\ rlast'.clf = "svm")
       => (/\ rlast'.out = "AttributeError"
           /\ pictures' = pictures)]_vars

\* C8 witness: the call on the kernel-machine model raised and no image exists.
C8_Witness ==
    /\ rlast.clf = "svm"
    /\ rlast.out = "AttributeError"
    /\ pictures = {}
    /\ figures >= 1

====
